---- MODULE Spec2Model ----
(***************************************************************************)
(* PseudoBank: the session mapper (src/src/pseudonymize.py, SessionMapper) *)
(* and the replacement step of interactive_pseudonymize.                   *)
(*                                                                         *)
(* Python strings are TLA+ strings; a dict is a function whose DOMAIN is   *)
(* the set of its keys; a set is a set.                                    *)
(***************************************************************************)
EXTENDS Integers, Sequences, FiniteSets, TLC

VARIABLES
    mappings,        \* SessionMapper._mappings      {prefix: {real_value: fake_value}}
    used_numbers,    \* SessionMapper._used_numbers  {prefix: set of int}
    issued,          \* history: per prefix, the calls of _get_random_number in order, each
                     \*          with the integer it returned and the real value it was made for
    first,           \* history: per prefix and real value, the pseudonym returned by the first call
    seen,            \* history: per prefix, the real values passed to get_fake_value
    last,            \* history: the last get_fake_value call and what it returned
    pc,              \* where interactive_pseudonymize stands
    df,              \* the DataFrame: its columns in order, each with a name and its cells
    df0,             \* history: the DataFrame as load_file returned it
    selected_columns,\* list of column names
    column_prefixes, \* dict column name -> prefix, in insertion order
    col_i,           \* replacement loop: position in column_prefixes.items()
    result,          \* replacement loop: the Series that df[col].apply is building
    saved,           \* what save_file wrote: <<>> or <<the DataFrame>>
    heap,            \* the dict objects SessionMapper instances hold, by reference
    instances,       \* the SessionMapper objects: the references in _mappings and _used_numbers
    acted,           \* history: the instance the last step constructed or called, 0 if none
    typed            \* history: <<the text typed>> if the last step read a prompt, else <<>>

mapperVars == <<mappings, used_numbers, issued, first, seen, last>>

runVars == <<pc, df, df0, selected_columns, column_prefixes, col_i, result, saved>>

instVars == <<heap, instances, acted>>

vars == <<mappings, used_numbers, issued, first, seen, last,
          pc, df, df0, selected_columns, column_prefixes, col_i, result, saved,
          heap, instances, acted, typed>>

----------------------------------------------------------------------------
(* Bounds *)

\* Largest integer of the random range; the source draws from range(1, 1000),
\* i.e. 1..999.  The model keeps the range small so that exhaustion is reached.
PoolMax == 2

\* Number of distinct real values passed to the mapper under the first prefix,
\* and under the second.
NumValues == 4
NumOtherValues == 1

\* Number of rows of the loaded table.
NumRows == 2

(* Program constants *)

\* `len(used) + 1000`
FallbackBase == 1000

\* `zfill(3)`
PadWidth == 3

----------------------------------------------------------------------------
(* Python helpers *)

EmptyDict == [k \in {} |-> 0]

\* d[k] = v on a dict
Put(d, k, v) == [x \in (DOMAIN d) \cup {k} |-> IF x = k THEN v ELSE d[x]]

Digit == <<"0", "1", "2", "3", "4", "5", "6", "7", "8", "9">>

\* str(n) for a non-negative int
RECURSIVE IntToStr(_)
IntToStr(n) ==
    IF n < 10 THEN Digit[n + 1]
    ELSE IntToStr(n \div 10) \o Digit[(n % 10) + 1]

\* s.zfill(w) for a string of digits
RECURSIVE zfill(_, _)
zfill(s, w) == IF Len(s) >= w THEN s ELSE zfill("0" \o s, w)

(* Text typed at a prompt is a sequence of one-character strings. *)

LowerCase == <<"a", "b", "c", "d", "e", "f", "g", "h", "i", "j", "k", "l", "m",
               "n", "o", "p", "q", "r", "s", "t", "u", "v", "w", "x", "y", "z">>
UpperCase == <<"A", "B", "C", "D", "E", "F", "G", "H", "I", "J", "K", "L", "M",
               "N", "O", "P", "Q", "R", "S", "T", "U", "V", "W", "X", "Y", "Z">>

\* Position of c in seq, 0 when absent
IndexIn(seq, c) ==
    IF \E i \in 1..Len(seq) : seq[i] = c
    THEN CHOOSE i \in 1..Len(seq) : seq[i] = c
    ELSE 0

IsAlpha(c) == IndexIn(LowerCase, c) > 0 \/ IndexIn(UpperCase, c) > 0
IsDigit(c) == IndexIn(Digit, c) > 0

LowerChar(c) == IF IndexIn(UpperCase, c) > 0 THEN LowerCase[IndexIn(UpperCase, c)] ELSE c
UpperChar(c) == IF IndexIn(LowerCase, c) > 0 THEN UpperCase[IndexIn(LowerCase, c)] ELSE c

\* s.lower()
lower(s) == [i \in 1..Len(s) |-> LowerChar(s[i])]

\* s.strip()
RECURSIVE strip(_)
strip(s) ==
    IF s = <<>> THEN s
    ELSE IF Head(s) = " " THEN strip(Tail(s))
    ELSE IF s[Len(s)] = " " THEN strip(SubSeq(s, 1, Len(s) - 1))
    ELSE s

\* s.split(sep): always at least one piece
RECURSIVE split(_, _)
split(s, sep) ==
    IF \E i \in 1..Len(s) : s[i] = sep
    THEN LET i == CHOOSE k \in 1..Len(s) :
                    s[k] = sep /\ \A j \in 1..(k - 1) : s[j] # sep
         IN  <<SubSeq(s, 1, i - 1)>> \o split(SubSeq(s, i + 1, Len(s)), sep)
    ELSE <<s>>

\* s.replace(old, new) for single characters
replace(s, old, new) == [i \in 1..Len(s) |-> IF s[i] = old THEN new ELSE s[i]]

\* s.title(): a letter is upper-cased when it does not follow a letter and
\* lower-cased when it does
title(s) ==
    [i \in 1..Len(s) |->
        IF ~IsAlpha(s[i]) THEN s[i]
        ELSE IF i = 1 \/ ~IsAlpha(s[i - 1]) THEN UpperChar(s[i])
        ELSE LowerChar(s[i])]

\* The Python str made of the characters of s
RECURSIVE Join(_)
Join(s) == IF s = <<>> THEN "" ELSE Head(s) \o Join(Tail(s))

\* Value of a string of decimal digits
RECURSIVE DigitsValue(_)
DigitsValue(s) ==
    IF s = <<>> THEN 0
    ELSE DigitsValue(SubSeq(s, 1, Len(s) - 1)) * 10 + (IndexIn(Digit, s[Len(s)]) - 1)

\* int(x): ok is FALSE where Python raises ValueError.  Surrounding blanks
\* and one leading sign are accepted.
ParseInt(x) ==
    LET t    == strip(x)
        neg  == t # <<>> /\ Head(t) = "-"
        body == IF t # <<>> /\ Head(t) \in {"-", "+"} THEN Tail(t) ELSE t
    IN  IF body # <<>> /\ \A i \in 1..Len(body) : IsDigit(body[i])
        THEN [ok |-> TRUE, n |-> IF neg THEN 0 - DigitsValue(body) ELSE DigitsValue(body)]
        ELSE [ok |-> FALSE, n |-> 0]

----------------------------------------------------------------------------
(* SessionMapper *)

\* Variant: the used numbers are not filtered out.
Available_unfiltered(used) == 1..PoolMax

\* available = [n for n in range(1, 1000) if n not in used]
Available(used) == {n \in 1..PoolMax : n \notin used}

\* return len(used) + 1000
FallbackNumber(used) == Cardinality(used) + FallbackBase

\* Variant: one used-number set serves every prefix.
get_random_number_shared(un, prefix) ==
    LET un1  == IF prefix \in DOMAIN un THEN un ELSE Put(un, prefix, {})
        used == un1[prefix]
    IN  IF Available(used) = {}
        THEN {[num |-> FallbackNumber(used), used_numbers |-> un1]}
        ELSE {[num |-> chosen,
               used_numbers |-> [q \in DOMAIN un1 |-> un1[q] \cup {chosen}]]
                 : chosen \in Available(used)}

\* Variant: the chosen number is not recorded as used.
get_random_number_forgetful(un, prefix) ==
    LET un1  == IF prefix \in DOMAIN un THEN un ELSE Put(un, prefix, {})
        used == un1[prefix]
    IN  IF Available(used) = {}
        THEN {[num |-> FallbackNumber(used), used_numbers |-> un1]}
        ELSE {[num |-> chosen, used_numbers |-> un1] : chosen \in Available(used)}

\* _get_random_number(prefix): the set of possible outcomes, one per value
\* random.choice can pick.  Each outcome is the returned number and the
\* _used_numbers dict after the call.
get_random_number(un, prefix) ==
    LET un1  == IF prefix \in DOMAIN un THEN un ELSE Put(un, prefix, {})
        used == un1[prefix]
    IN  IF Available(used) = {}
        THEN {[num |-> FallbackNumber(used), used_numbers |-> un1]}
        ELSE {[num |-> chosen,
               used_numbers |-> [un1 EXCEPT ![prefix] = used \cup {chosen}]]
                 : chosen \in Available(used)}

\* Variant: the number is not padded.
FormatFake_unpadded(prefix, num) == prefix \o "_" \o IntToStr(num)

\* fake = f"{prefix}_{str(num).zfill(3)}"
FormatFake(prefix, num) == prefix \o "_" \o zfill(IntToStr(num), PadWidth)

\* Variant: the cache is never consulted.
IsNewValue_always(m, prefix, real_value) == TRUE

\* real_value not in self._mappings[prefix]
IsNewValue(m, prefix, real_value) == real_value \notin DOMAIN m[prefix]

\* get_fake_value(prefix, real_value): the set of possible outcomes.  Each
\* outcome is the returned pseudonym, both dicts after the call, and the
\* numbers handed out by _get_random_number during the call (none or one).
get_fake_value(m, un, prefix, real_value) ==
    LET m1 == IF prefix \in DOMAIN m THEN m ELSE Put(m, prefix, EmptyDict)
    IN  IF IsNewValue(m1, prefix, real_value)
        THEN {LET fake == FormatFake(prefix, r.num)
                  m2   == [m1 EXCEPT ![prefix] = Put(m1[prefix], real_value, fake)]
              IN  [ret          |-> m2[prefix][real_value],
                   mappings     |-> m2,
                   used_numbers |-> r.used_numbers,
                   allocated    |-> <<r.num>>]
                : r \in get_random_number(un, prefix)}
        ELSE {[ret          |-> m1[prefix][real_value],
               mappings     |-> m1,
               used_numbers |-> un,
               allocated    |-> <<>>]}

\* Variant: counts the pseudonyms instead of the real values.
get_summary_fakes(m) ==
    [prefix \in DOMAIN m |->
        Cardinality({m[prefix][v] : v \in DOMAIN m[prefix]})]

\* get_summary()
get_summary(m) == [prefix \in DOMAIN m |-> Cardinality(DOMAIN m[prefix])]

----------------------------------------------------------------------------
(* History bookkeeping shared by every caller of get_fake_value *)

NoCall == [prefix |-> "", real_value |-> "", ret |-> "", hit |-> FALSE, called |-> FALSE]

Record(o, prefix, real_value) ==
    /\ mappings' = o.mappings
    /\ used_numbers' = o.used_numbers
    /\ issued' = Put(issued, prefix,
                     (IF prefix \in DOMAIN issued THEN issued[prefix] ELSE <<>>)
                        \o [i \in 1..Len(o.allocated) |->
                              [num |-> o.allocated[i], real_value |-> real_value]])
    /\ seen' = Put(seen, prefix,
                   (IF prefix \in DOMAIN seen THEN seen[prefix] ELSE {})
                      \cup {real_value})
    /\ first' = IF <<prefix, real_value>> \in DOMAIN first
                THEN first
                ELSE Put(first, <<prefix, real_value>>, o.ret)
    /\ last' = [prefix |-> prefix, real_value |-> real_value, ret |-> o.ret,
                hit |-> (o.allocated = <<>>), called |-> TRUE]

----------------------------------------------------------------------------
(* A session driven by arbitrary get_fake_value calls *)

ValueNames == <<"Acme", "Boeing", "Cargill", "Dow", "Exxon", "Ford", "Gulf">>
Values == {ValueNames[i] : i \in 1..NumValues}
OtherValues == {ValueNames[i] : i \in 1..NumOtherValues}

\* The get_fake_value calls a session may make: <<prefix, real_value>>
Calls == ({"Vendor"} \X Values) \cup ({"Program"} \X OtherValues)

\* SessionMapper.__init__
MapperInit ==
    /\ mappings = EmptyDict
    /\ used_numbers = EmptyDict
    /\ issued = EmptyDict
    /\ first = EmptyDict
    /\ seen = EmptyDict
    /\ last = NoCall

\* No file is being processed
NoRun ==
    /\ pc = "session"
    /\ df = <<>>
    /\ df0 = <<>>
    /\ selected_columns = <<>>
    /\ column_prefixes = <<>>
    /\ col_i = 0
    /\ result = <<>>
    /\ saved = <<>>

\* The SessionMapper objects a program may hold
Instances == {1, 2}

\* An instance that has not been constructed
NoInstance == [mappings |-> 0, used_numbers |-> 0]

\* No further SessionMapper object exists
NoInstances ==
    /\ heap = <<>>
    /\ instances = [i \in Instances |-> NoInstance]
    /\ acted = 0
    /\ typed = <<>>

SessionInit == MapperInit /\ NoRun /\ NoInstances

Call(prefix, real_value) ==
    /\ \E o \in get_fake_value(mappings, used_numbers, prefix, real_value) :
          Record(o, prefix, real_value)
    /\ UNCHANGED runVars
    /\ UNCHANGED instVars
    /\ UNCHANGED typed

MapperNext == \E c \in Calls : Call(c[1], c[2])

MapperSpec == SessionInit /\ [][MapperNext]_vars

----------------------------------------------------------------------------
(* Several SessionMapper objects, called through the class as it stands *)

\* Variant: the two dicts are class attributes, made once and shared.
new_mapper_shared(h) ==
    IF h = <<>>
    THEN [heap |-> <<EmptyDict, EmptyDict>>, self |-> [mappings |-> 1, used_numbers |-> 2]]
    ELSE [heap |-> h, self |-> [mappings |-> 1, used_numbers |-> 2]]

\* SessionMapper(): __init__ binds two new empty dicts to the new object
new_mapper(h) ==
    [heap |-> h \o <<EmptyDict, EmptyDict>>,
     self |-> [mappings |-> Len(h) + 1, used_numbers |-> Len(h) + 2]]

\* self._mappings and self._used_numbers of instance i
MappingsOf(i) == heap[instances[i].mappings]
UsedNumbersOf(i) == heap[instances[i].used_numbers]

\* The arguments get_fake_value accepts: any two str, the empty one included
AnyPrefixes == {"", "Vendor"}
AnyValues == {ValueNames[1], ValueNames[2]}

InstancesInit == MapperInit /\ NoRun /\ NoInstances

\* mapper_i = SessionMapper()
Construct(i) ==
    /\ instances[i] = NoInstance
    /\ LET new == new_mapper(heap)
       IN  /\ heap' = new.heap
           /\ instances' = [instances EXCEPT ![i] = new.self]
    /\ acted' = i
    /\ UNCHANGED mapperVars
    /\ UNCHANGED runVars
    /\ UNCHANGED typed

\* mapper_i.get_fake_value(prefix, real_value)
CallOn(i, prefix, real_value) ==
    /\ instances[i] # NoInstance
    /\ \E o \in get_fake_value(MappingsOf(i), UsedNumbersOf(i), prefix, real_value) :
          heap' = [r \in 1..Len(heap) |->
                      IF r = instances[i].used_numbers THEN o.used_numbers
                      ELSE IF r = instances[i].mappings THEN o.mappings
                      ELSE heap[r]]
    /\ acted' = i
    /\ UNCHANGED instances
    /\ UNCHANGED mapperVars
    /\ UNCHANGED runVars
    /\ UNCHANGED typed

InstancesNext ==
    \/ \E i \in Instances : Construct(i)
    \/ \E i \in Instances, prefix \in AnyPrefixes, real_value \in AnyValues :
          CallOn(i, prefix, real_value)

InstancesSpec == InstancesInit /\ [][InstancesNext]_vars

----------------------------------------------------------------------------
(* interactive_pseudonymize: the table *)

\* Cell values of a DataFrame: a str, a non-negative int, or NaN
StrCell(s) == [kind |-> "str", s |-> s, n |-> 0]
IntCell(n) == [kind |-> "int", s |-> "", n |-> n]
NaN == [kind |-> "nan", s |-> "", n |-> 0]

\* Variant: nothing counts as missing.
isna_never(value) == FALSE

\* pd.isna(value)
isna(value) == value.kind = "nan"

\* str(value)
ToStr(value) ==
    CASE value.kind = "str" -> value.s
      [] value.kind = "int" -> IntToStr(value.n)
      [] value.kind = "nan" -> "nan"

\* df[col]: the cells of the column named col
Column(d, col) == d[CHOOSE i \in 1..Len(d) : d[i].name = col].cells

\* Variant: the new Series is added as one more column.
SetColumn_append(d, col, series) == Append(d, [name |-> col, cells |-> series])

\* df[col] = series, for a column the DataFrame has
SetColumn(d, col, series) ==
    [i \in 1..Len(d) |->
        IF d[i].name = col THEN [name |-> col, cells |-> series] ELSE d[i]]

\* d[k] = v on a dict kept in insertion order: a key already present keeps
\* its place
DictSet(d, k, v) ==
    IF \E i \in 1..Len(d) : d[i].col = k
    THEN [i \in 1..Len(d) |-> IF d[i].col = k THEN [col |-> k, prefix |-> v] ELSE d[i]]
    ELSE Append(d, [col |-> k, prefix |-> v])

\* The tables load_file can return: a column of names, some of them missing
\* or made of digits, and a column of numbers, some of them missing
ColumnNames == <<"Vendor", "Amount">>
Cells == <<{StrCell("Acme"), StrCell("Boeing"), StrCell("1"), NaN},
           {IntCell(1), NaN}>>
Tables ==
    {[i \in 1..Len(ColumnNames) |-> [name |-> ColumnNames[i], cells |-> c[i]]]
        : c \in {t \in [1..Len(ColumnNames) -> [1..NumRows -> UNION {Cells[i] : i \in 1..Len(Cells)}]] :
                    \A i \in 1..Len(ColumnNames) : \A r \in 1..NumRows : t[i][r] \in Cells[i]}}

\* list(df.columns)
columns_list(d) == [i \in 1..Len(d) |-> d[i].name]

----------------------------------------------------------------------------
(* interactive_pseudonymize: the prompts *)

\* What the user may type at "Column numbers to hide (or 'none' to skip): "
SelectResponses ==
    { <<"n", "o", "n", "e">>, <<" ", "N", "o", "n", "e">>,
      <<"1">>, <<"2">>, <<"1", ",", " ", "2">>, <<"2", ",", "1">>, <<"1", ",", "1">>,
      <<"3">>, <<"1", ",", "3">>, <<"1", ",", "x">>, <<>> }

\* What the user may type at "What prefix should I use for ..."
PrefixResponses ==
    { <<>>, <<" ">>, <<"v", "e", "n", "d", "o", "r">>,
      <<"V", "E", "N", "D", "O", "R", " ">>, <<"m", "y", " ", "o", "r", "g">> }

\* What the user may type at "Does this look right? (y/n): "
ConfirmResponses ==
    { <<"y">>, <<"Y", "e", "s">>, <<"n">>, <<" ", "N", "O">>, <<"o", "k">>, <<>> }

\* After load_file and the column listing
Init ==
    /\ MapperInit
    /\ df \in Tables
    /\ df0 = df
    /\ pc = "select"
    /\ selected_columns = <<>>
    /\ column_prefixes = <<>>
    /\ col_i = 0
    /\ result = <<>>
    /\ saved = <<>>
    /\ NoInstances

\* The part of `numbers` the for-loop appends before it meets an invalid
\* number or ends
ValidLead(numbers, ncols) ==
    LET bad == {i \in 1..Len(numbers) : ~(1 <= numbers[i] /\ numbers[i] <= ncols)}
    IN  IF bad = {} THEN Len(numbers)
        ELSE (CHOOSE i \in bad : \A j \in bad : i <= j) - 1

\* The selection loop has ended with selection sel
AfterSelect(sel) ==
    /\ selected_columns' = sel
    /\ IF sel = <<>>
       THEN pc' = "unchanged" /\ col_i' = col_i
       ELSE pc' = "prefix" /\ col_i' = 1
    /\ column_prefixes' = <<>>

\* One answer at the column selection prompt
Select(answer) ==
    /\ pc = "select"
    /\ LET response == strip(answer)
           pieces   == split(response, ",")
           parsed   == [i \in 1..Len(pieces) |-> ParseInt(pieces[i])]
           numbers  == [i \in 1..Len(pieces) |-> parsed[i].n]
           lead     == ValidLead(numbers, Len(columns_list(df)))
           picked   == [i \in 1..lead |-> columns_list(df)[numbers[i]]]
       IN  IF lower(response) = <<"n", "o", "n", "e">>
           THEN AfterSelect(selected_columns)
           ELSE IF \E i \in 1..Len(parsed) : ~parsed[i].ok
           THEN UNCHANGED <<pc, selected_columns, column_prefixes, col_i>>
           ELSE IF lead = Len(numbers)
           THEN AfterSelect(picked)
           ELSE /\ selected_columns' = picked
                /\ UNCHANGED <<pc, column_prefixes, col_i>>
    /\ typed' = <<answer>>
    /\ UNCHANGED <<df, df0, result, saved>>
    /\ UNCHANGED mapperVars
    /\ UNCHANGED instVars

\* prefix.replace(" ", "_").title()
CleanPrefix(prefix) == Join(title(replace(prefix, " ", "_")))

\* Variant: the answer is taken as it is.
AcceptsPrefix_any(prefix) == TRUE

\* `if prefix:` on the stripped answer
AcceptsPrefix(prefix) == prefix # <<>>

\* One answer at the prefix prompt of the column selected_columns[col_i]
AskPrefix(answer) ==
    /\ pc = "prefix"
    /\ LET prefix == strip(answer)
           col    == selected_columns[col_i]
       IN  IF AcceptsPrefix(prefix)
           THEN /\ column_prefixes' = DictSet(column_prefixes, col, CleanPrefix(prefix))
                /\ IF col_i = Len(selected_columns)
                   THEN pc' = "confirm" /\ col_i' = 0
                   ELSE pc' = pc /\ col_i' = col_i + 1
           ELSE UNCHANGED <<pc, column_prefixes, col_i>>
    /\ typed' = <<answer>>
    /\ UNCHANGED <<df, df0, selected_columns, result, saved>>
    /\ UNCHANGED mapperVars
    /\ UNCHANGED instVars

\* Variant: whatever is not a no counts as a yes.
get_yes_no_lenient(answer) ==
    LET response == lower(strip(answer))
    IN  IF response \in {<<"n">>, <<"n", "o">>} THEN "no" ELSE "yes"

\* get_yes_no: "yes", "no", or "again" when the question is repeated
get_yes_no(answer) ==
    LET response == lower(strip(answer))
    IN  IF response \in {<<"y">>, <<"y", "e", "s">>} THEN "yes"
        ELSE IF response \in {<<"n">>, <<"n", "o">>} THEN "no"
        ELSE "again"

\* One answer at "Does this look right?"; on yes, mapper = SessionMapper()
Confirm(answer) ==
    /\ pc = "confirm"
    /\ CASE get_yes_no(answer) = "yes" ->
               /\ pc' = "replace" /\ col_i' = 1 /\ result' = <<>>
               /\ mappings' = EmptyDict /\ used_numbers' = EmptyDict
               /\ UNCHANGED <<issued, first, seen, last>>
         [] get_yes_no(answer) = "no" ->
               /\ pc' = "cancelled"
               /\ UNCHANGED <<col_i, result>>
               /\ UNCHANGED mapperVars
         [] get_yes_no(answer) = "again" ->
               /\ UNCHANGED <<pc, col_i, result>>
               /\ UNCHANGED mapperVars
    /\ typed' = <<answer>>
    /\ UNCHANGED <<df, df0, selected_columns, column_prefixes, saved>>
    /\ UNCHANGED instVars

----------------------------------------------------------------------------
(* interactive_pseudonymize: the replacement step *)

\* Variant: the closure reads the loop variable after the loop has ended.
CurrentPrefix_last(cp, i) == cp[Len(cp)].prefix

\* `prefix` of the current iteration of `for col, prefix in column_prefixes.items()`
CurrentPrefix(cp, i) == cp[i].prefix

\* df[col].apply calls replace_value on the next cell of the column
ReplaceValue ==
    /\ pc = "replace"
    /\ col_i <= Len(column_prefixes)
    /\ Len(result) < Len(Column(df, column_prefixes[col_i].col))
    /\ LET col    == column_prefixes[col_i].col
           prefix == CurrentPrefix(column_prefixes, col_i)
           value  == Column(df, col)[Len(result) + 1]
       IN  IF isna(value)
           THEN /\ result' = Append(result, value)
                /\ UNCHANGED mapperVars
           ELSE \E o \in get_fake_value(mappings, used_numbers, prefix, ToStr(value)) :
                    /\ Record(o, prefix, ToStr(value))
                    /\ result' = Append(result, StrCell(o.ret))
    /\ typed' = <<>>
    /\ UNCHANGED <<pc, df, df0, selected_columns, column_prefixes, col_i, saved>>
    /\ UNCHANGED instVars

\* df[col] = (the Series apply returned); next iteration
AssignColumn ==
    /\ pc = "replace"
    /\ col_i <= Len(column_prefixes)
    /\ Len(result) = Len(Column(df, column_prefixes[col_i].col))
    /\ df' = SetColumn(df, column_prefixes[col_i].col, result)
    /\ col_i' = col_i + 1
    /\ result' = <<>>
    /\ typed' = <<>>
    /\ UNCHANGED <<pc, df0, selected_columns, column_prefixes, saved>>
    /\ UNCHANGED mapperVars
    /\ UNCHANGED instVars

\* save_file(df, output_path)
SaveFile ==
    /\ pc = "replace"
    /\ col_i > Len(column_prefixes)
    /\ saved' = <<df>>
    /\ pc' = "done"
    /\ typed' = <<>>
    /\ UNCHANGED <<df, df0, selected_columns, column_prefixes, col_i, result>>
    /\ UNCHANGED mapperVars
    /\ UNCHANGED instVars

Next ==
    \/ \E answer \in SelectResponses : Select(answer)
    \/ \E answer \in PrefixResponses : AskPrefix(answer)
    \/ \E answer \in ConfirmResponses : Confirm(answer)
    \/ ReplaceValue
    \/ AssignColumn
    \/ SaveFile

Spec == Init /\ [][Next]_vars

----------------------------------------------------------------------------
(* Properties of the session mapper, checked under MapperSpec *)

\* The integers returned by _get_random_number for prefix p, in call order
Nums(p) == [i \in 1..Len(issued[p]) |-> issued[p][i].num]

\* C1 -- No duplicate allocation: for every prefix, the integers returned by
\* successive _get_random_number calls are pairwise different, also after all
\* of 1..PoolMax have been issued.
C1_NoDuplicateAllocation ==
    \A p \in DOMAIN issued :
        \A i, j \in 1..Len(issued[p]) :
            i # j => Nums(p)[i] # Nums(p)[j]

\* C2 -- Consistency: every call get_fake_value(p, v) returns the pseudonym
\* that the first call get_fake_value(p, v) of the session returned.
C2_Consistency ==
    last.called => last.ret = first[<<last.prefix, last.real_value>>]

\* C2 witness: a repeated call for a value of a prefix whose pool is exhausted,
\* with calls on another prefix in between.
C2_Witness ==
    /\ last.called /\ last.hit
    /\ Len(issued[last.prefix]) > PoolMax
    /\ \E q \in DOMAIN issued : q # last.prefix /\ Len(issued[q]) > 0

\* C3 -- Injectivity under capacity: two distinct values of a prefix that were
\* both first mapped among the first PoolMax allocations of that prefix have
\* different pseudonyms.
C3_InjectiveUnderCapacity ==
    \A p \in DOMAIN issued :
        \A i, j \in 1..Len(issued[p]) :
            (i <= PoolMax /\ j <= PoolMax
               /\ issued[p][i].real_value # issued[p][j].real_value)
            => mappings[p][issued[p][i].real_value]
                 # mappings[p][issued[p][j].real_value]

\* C3 witness: a prefix has used its whole pool and gone beyond it.
C3_Witness ==
    \E p \in DOMAIN issued :
        /\ Len(issued[p]) > PoolMax
        /\ Cardinality({issued[p][i].real_value : i \in 1..PoolMax}) = PoolMax

\* C4 -- Fallback monotonicity: every allocation after the first PoolMax ones
\* returns an integer >= FallbackBase that is strictly greater than the one
\* returned by the previous allocation for the prefix, and the values mapped
\* after exhaustion have pairwise distinct pseudonyms.
C4_FallbackMonotonic ==
    \A p \in DOMAIN issued :
        /\ \A i \in 1..Len(issued[p]) :
              i > PoolMax => /\ Nums(p)[i] >= FallbackBase
                             /\ Nums(p)[i] > Nums(p)[i - 1]
        /\ \A i, j \in 1..Len(issued[p]) :
              (i > PoolMax /\ j > PoolMax /\ i # j)
              => mappings[p][issued[p][i].real_value]
                   # mappings[p][issued[p][j].real_value]

\* C5 -- Fallback value: once 1..PoolMax are all issued, the call that is made
\* when n integers have been issued for the prefix returns
\* FallbackBase + (n - PoolMax).
C5_FallbackValue ==
    \A p \in DOMAIN issued :
        \A i \in 1..Len(issued[p]) :
            i > PoolMax => Nums(p)[i] = FallbackBase + ((i - 1) - PoolMax)

\* C6 -- Summary accuracy: get_summary() has exactly the prefixes passed to
\* get_fake_value as keys, and maps each to the number of distinct real values
\* passed under it.
C6_SummaryAccuracy ==
    /\ DOMAIN get_summary(mappings) = DOMAIN seen
    /\ \A p \in DOMAIN seen : get_summary(mappings)[p] = Cardinality(seen[p])

\* C6 witness: two prefixes in the summary, one with more values than the
\* pool holds, right after a repeated call.
C6_Witness ==
    /\ last.called /\ last.hit
    /\ Cardinality(DOMAIN get_summary(mappings)) = 2
    /\ get_summary(mappings)[last.prefix] > PoolMax

\* The last three decimal digits of n, and the digit of its thousands
LastThree(n) ==
    Digit[((n \div 100) % 10) + 1] \o Digit[((n \div 10) % 10) + 1] \o Digit[(n % 10) + 1]
Thousands(n) == Digit[((n \div 1000) % 10) + 1]

\* C12 -- Pseudonym format: the pseudonym stored and returned for a value is
\* the prefix, "_" and the allocated integer in decimal: three digits, zero
\* padded, for the integers of the pool, and the four digits of the integer,
\* unpadded, for the fallback integers 1000..9999.
C12_PseudonymFormat ==
    /\ \A p \in DOMAIN issued :
          \A i \in 1..Len(issued[p]) :
              LET n    == issued[p][i].num
                  fake == mappings[p][issued[p][i].real_value]
              IN  /\ i <= PoolMax =>
                        /\ n \in 1..PoolMax /\ n < 1000
                        /\ fake = p \o "_" \o LastThree(n)
                        /\ Len(fake) = Len(p) + 1 + 3
                  /\ i > PoolMax =>
                        /\ n \in 1000..9999
                        /\ fake = p \o "_" \o Thousands(n) \o LastThree(n)
                        /\ Len(fake) = Len(p) + 1 + 4
    /\ last.called =>
          /\ last.ret = mappings[last.prefix][last.real_value]
          /\ \E i \in 1..Len(issued[last.prefix]) :
                issued[last.prefix][i].real_value = last.real_value

\* C12 witness: a call has just returned a pool pseudonym for a prefix that
\* also holds a fallback pseudonym.
C12_Witness ==
    /\ last.called
    /\ Len(issued[last.prefix]) > PoolMax
    /\ \E i \in 1..PoolMax : issued[last.prefix][i].real_value = last.real_value

\* The pair of the call made by a step is already mapped before the step
HitStep ==
    /\ last'.called
    /\ last'.prefix \in DOMAIN mappings
    /\ last'.real_value \in DOMAIN mappings[last'.prefix]

\* C14 -- Cache hit makes no allocation: a get_fake_value call for a pair that
\* is already mapped changes no mapping table and no used-number set, and no
\* integer is issued.
C14_HitAllocatesNothing ==
    [][HitStep => /\ mappings' = mappings
                  /\ used_numbers' = used_numbers
                  /\ issued' = issued
                  /\ last'.ret = mappings[last'.prefix][last'.real_value]]_vars

\* C14 witness: the last call was a hit on a prefix whose pool still has
\* unused integers.
C14_Witness ==
    /\ last.called /\ last.hit
    /\ Available(used_numbers[last.prefix]) # {}

\* C15 -- Prefix independence: a call under prefix p leaves the mapping table
\* and the used-number set of every other prefix as they were, and what p may
\* be given next does not depend on the other prefixes: its used numbers are
\* the pool integers issued for p itself.
C15_PrefixIndependence ==
    /\ [][\A q \in DOMAIN mappings :
              q # last'.prefix =>
                  /\ q \in DOMAIN mappings' /\ mappings'[q] = mappings[q]
                  /\ q \in DOMAIN used_numbers'
                  /\ used_numbers'[q] = used_numbers[q]]_vars
    /\ [](\A p \in DOMAIN used_numbers :
              used_numbers[p]
                = {issued[p][i].num : i \in 1..Len(issued[p])} \cap (1..PoolMax))

\* C15 witness: the same integer has been issued under two prefixes, the
\* second of them in the last call.
C15_Witness ==
    /\ last.called /\ ~last.hit
    /\ \E q \in DOMAIN issued :
          /\ q # last.prefix
          /\ \E i \in 1..Len(issued[q]) :
                issued[q][i].num = issued[last.prefix][Len(issued[last.prefix])].num

\* The smaller of two integers
Smaller(a, b) == IF a <= b THEN a ELSE b

\* C19 -- Pool accounting: for every mapped prefix the used-number set lies in
\* 1..PoolMax, has min(number of values mapped, PoolMax) elements, and is the
\* set of integers below FallbackBase that the stored pseudonyms carry.
C19_PoolAccounting ==
    /\ DOMAIN used_numbers = DOMAIN mappings
    /\ \A p \in DOMAIN mappings :
          /\ used_numbers[p] \subseteq 1..PoolMax
          /\ Cardinality(used_numbers[p])
                = Smaller(Cardinality(DOMAIN mappings[p]), PoolMax)
          /\ used_numbers[p]
                = {n \in 1..PoolMax :
                     \E v \in DOMAIN mappings[p] :
                        mappings[p][v] = p \o "_" \o LastThree(n)}
          /\ \A v \in DOMAIN mappings[p] :
                \E i \in 1..Len(issued[p]) :
                    /\ issued[p][i].real_value = v
                    /\ issued[p][i].num \in (1..PoolMax) \cup {n \in Nat : n >= FallbackBase}

\* C19 witness: one prefix holds more values than the pool, another fewer.
C19_Witness ==
    /\ \E p \in DOMAIN mappings : Cardinality(DOMAIN mappings[p]) > PoolMax
    /\ \E p \in DOMAIN mappings : Cardinality(DOMAIN mappings[p]) < PoolMax

----------------------------------------------------------------------------
(* Properties of the replacement step, checked under Spec *)

\* Keys of column_prefixes
AssignedColumns == {column_prefixes[i].col : i \in 1..Len(column_prefixes)}

\* The cells replace_value has been called on so far: <<i, r>> is row r of the
\* column of the i-th item of column_prefixes
Processed ==
    IF pc \notin {"replace", "done"} THEN {}
    ELSE {x \in (1..Len(column_prefixes)) \X (1..NumRows) :
             x[1] < col_i \/ (x[1] = col_i /\ x[2] <= Len(result))}

\* The cell as it was loaded, and what replace_value returned for it
Orig(x) == Column(df0, column_prefixes[x[1]].col)[x[2]]
Out(x) ==
    IF x[1] < col_i THEN Column(df, column_prefixes[x[1]].col)[x[2]]
    ELSE result[x[2]]

ProcessedValues == {x \in Processed : Orig(x) # NaN}

\* C7 -- Missing-value transparency: a missing cell of an assigned column is
\* written back as it was; the values passed to the mapper are exactly the
\* texts of the non-missing cells processed, and one number is consumed per
\* distinct such text, so nothing is mapped or consumed for a missing cell.
C7_MissingTransparent ==
    /\ \A x \in Processed : Orig(x) = NaN => Out(x) = NaN
    /\ pc \in {"replace", "done"} =>
          /\ DOMAIN seen = {column_prefixes[x[1]].prefix : x \in ProcessedValues}
          /\ \A p \in DOMAIN seen :
                /\ seen[p] = {ToStr(Orig(x)) :
                                x \in {y \in ProcessedValues :
                                          column_prefixes[y[1]].prefix = p}}
                /\ DOMAIN mappings[p] = seen[p]
                /\ Len(issued[p]) = Cardinality(seen[p])

\* C7 witness: a saved run in which an assigned column had a missing and a
\* non-missing cell.
C7_Witness ==
    /\ pc = "done" /\ saved # <<>>
    /\ \E x, y \in Processed :
          x[1] = y[1] /\ Orig(x) = NaN /\ Orig(y) # NaN /\ Out(y) # Orig(y)

\* C8 -- Shape preservation: the names and order of the columns and the
\* number of rows never change, a column that is not assigned keeps its cells,
\* and row r of an assigned column holds either what row r held or a
\* pseudonym; what is saved is that table.
C8_ShapePreserved ==
    /\ columns_list(df) = columns_list(df0)
    /\ \A k \in 1..Len(df0) :
          /\ Len(df[k].cells) = Len(df0[k].cells)
          /\ df[k].name \notin AssignedColumns => df[k].cells = df0[k].cells
          /\ \A r \in 1..Len(df0[k].cells) :
                \/ df[k].cells[r] = df0[k].cells[r]
                \/ /\ df0[k].cells[r] # NaN
                   /\ \E i \in 1..Len(column_prefixes) :
                         /\ column_prefixes[i].col = df[k].name
                         /\ column_prefixes[i].prefix \in DOMAIN mappings
                         /\ \E v \in DOMAIN mappings[column_prefixes[i].prefix] :
                               df[k].cells[r]
                                 = StrCell(mappings[column_prefixes[i].prefix][v])
    /\ saved # <<>> => saved[1] = df

\* C8 witness: a saved run with a column left alone and a column replaced.
C8_Witness ==
    /\ pc = "done" /\ saved # <<>>
    /\ \E k \in 1..Len(df) : df[k].name \notin AssignedColumns
    /\ \E k \in 1..Len(df) : df[k].name \in AssignedColumns /\ df[k] # df0[k]

\* C9 -- Cross-column consistency: every non-missing cell processed holds the
\* pseudonym the session mapper keeps for the prefix of its column and the
\* text of the cell, so two cells with the same text whose columns have the
\* same prefix hold the same pseudonym, in one column or across columns.
C9_CrossColumnConsistent ==
    /\ \A x \in ProcessedValues :
          LET p == column_prefixes[x[1]].prefix
              t == ToStr(Orig(x))
          IN  /\ p \in DOMAIN mappings
              /\ t \in DOMAIN mappings[p]
              /\ Out(x) = StrCell(mappings[p][t])
    /\ \A x, y \in ProcessedValues :
          (/\ column_prefixes[x[1]].prefix = column_prefixes[y[1]].prefix
           /\ ToStr(Orig(x)) = ToStr(Orig(y)))
          => Out(x) = Out(y)

\* C9 witness: a saved run with two columns under one prefix, a str cell of
\* one and an int cell of the other having the same text, and a second text.
C9_Witness ==
    /\ pc = "done" /\ saved # <<>>
    /\ \E x, y, z \in ProcessedValues :
          /\ x[1] # y[1]
          /\ column_prefixes[x[1]].prefix = column_prefixes[y[1]].prefix
          /\ Orig(x) # Orig(y)
          /\ ToStr(Orig(x)) = ToStr(Orig(y))
          /\ ToStr(Orig(z)) # ToStr(Orig(x))
          /\ Out(z) # Out(x)

----------------------------------------------------------------------------
(* Properties of the prompts, checked under Spec *)

\* The answer the last step read, without its surrounding blanks and in lower case
Answered == lower(strip(typed[1]))
Answered_next == lower(strip(typed'[1]))

IsNone(a) == a = <<"n", "o", "n", "e">>
IsYes(a) == a \in {<<"y">>, <<"y", "e", "s">>}
IsNo(a) == a \in {<<"n">>, <<"n", "o">>}

\* The names of the columns of the loaded table
LoadedColumns == {df0[i].name : i \in 1..Len(df0)}

\* C16 -- Skip with 'none': every answer 'none' at the column-selection
\* prompt, whatever was answered there before, ends the run with no column
\* selected, the table as loaded, no mapper and nothing saved.
C16_NoneSkips ==
    [][(pc = "select" /\ typed' # <<>> /\ IsNone(Answered_next))
          => /\ pc' = "unchanged"
             /\ selected_columns' = <<>>
             /\ df' = df0 /\ saved' = <<>>]_vars

\* C17 -- Confirmation gate: the replacement step is entered only by a yes at
\* "Does this look right?", and with a new, empty mapper; cells change and a
\* file is saved only in the replacement step; a no ends the run with the
\* table as loaded, the mapper untouched and nothing saved; any other answer
\* leaves the run at the question.
C17_ConfirmationGate ==
    [][/\ (pc' = "replace" /\ pc # "replace")
             => /\ pc = "confirm" /\ typed' # <<>> /\ IsYes(Answered_next)
                /\ mappings' = EmptyDict /\ used_numbers' = EmptyDict
                /\ result' = <<>> /\ df' = df0 /\ saved' = <<>>
       /\ (pc' = "done" /\ pc # "done") => pc = "replace"
       /\ (df' # df \/ saved' # saved \/ mappings' # mappings
              \/ used_numbers' # used_numbers)
             => (pc = "replace" \/ pc' = "replace")
       /\ (pc = "confirm" /\ typed' # <<>> /\ IsNo(Answered_next))
             => /\ pc' = "cancelled"
                /\ df' = df0 /\ saved' = <<>>
                /\ mappings' = EmptyDict /\ used_numbers' = EmptyDict
                /\ issued' = EmptyDict
       /\ (pc = "confirm" /\ typed' # <<>>
              /\ ~IsYes(Answered_next) /\ ~IsNo(Answered_next))
             => /\ pc' = "confirm"
                /\ UNCHANGED <<df, saved, selected_columns, column_prefixes>>
                /\ UNCHANGED mapperVars
       /\ pc # "cancelled"]_vars

\* A run cancelled by a no typed with blanks and capitals, after two columns
\* were given prefixes
C17_Witness ==
    /\ pc = "cancelled"
    /\ typed # <<>> /\ IsNo(Answered) /\ typed[1] # Answered
    /\ Len(column_prefixes) = 2
    /\ df = df0 /\ saved = <<>> /\ mappings = EmptyDict

\* C18 -- Assigned columns are valid: once the replacement step is reached,
\* column_prefixes is not empty, each of its keys is a column of the loaded
\* table and each of its prefixes is a non-empty text.
C18_AssignedColumnsValid ==
    pc \in {"replace", "done"}
        => /\ column_prefixes # <<>>
           /\ \A i \in 1..Len(column_prefixes) :
                 /\ column_prefixes[i].col \in LoadedColumns
                 /\ column_prefixes[i].prefix # ""
                 /\ Len(Column(df, column_prefixes[i].col)) = NumRows

\* The replacement step at work on the second of two assigned columns, the
\* second column of the table having been chosen first
C18_Witness ==
    /\ pc = "replace" /\ col_i = 2
    /\ Len(column_prefixes) = 2
    /\ column_prefixes[1].col = ColumnNames[2]
    /\ column_prefixes[1].prefix # column_prefixes[2].prefix

----------------------------------------------------------------------------
(* Properties of the class called with any arguments, checked under InstancesSpec *)

\* C11 -- EmptyPrefix: an empty prefix is rejected; no instance ever holds a
\* mapping table, a used-number set or a pseudonym "_NNN" for the prefix "".
C11_EmptyPrefixRejected ==
    \A i \in Instances :
        instances[i] # NoInstance =>
            /\ "" \notin DOMAIN MappingsOf(i)
            /\ "" \notin DOMAIN UsedNumbersOf(i)

\* C13 -- Session isolation: a SessionMapper starts with an empty mapping
\* table and an empty used-number table, and a step that constructs or calls
\* one instance leaves the mappings, used numbers and summary of every other
\* instance as they were.
C13_SessionIsolation ==
    [][\A i \in Instances :
          /\ (instances[i] = NoInstance /\ instances'[i] # NoInstance) =>
                /\ heap'[instances'[i].mappings] = EmptyDict
                /\ heap'[instances'[i].used_numbers] = EmptyDict
                /\ instances'[i].mappings # instances'[i].used_numbers
          /\ (instances[i] # NoInstance /\ acted' # i) =>
                /\ instances'[i] = instances[i]
                /\ heap'[instances'[i].mappings] = MappingsOf(i)
                /\ heap'[instances'[i].used_numbers] = UsedNumbersOf(i)
                /\ get_summary(heap'[instances'[i].mappings]) = get_summary(MappingsOf(i))
      ]_vars

\* C13 witness: both instances exist, the second was called last, and they
\* hold different non-empty tables.
C13_Witness ==
    /\ \A i \in Instances : instances[i] # NoInstance /\ MappingsOf(i) # EmptyDict
    /\ acted = 2
    /\ MappingsOf(1) # MappingsOf(2)
    /\ UsedNumbersOf(1) # UsedNumbersOf(2)

====
